---- MODULE Spec2Model ----
(***************************************************************************)
(* Model of the publications query script (publications_query.py with its  *)
(* configuration module config.py).                                         *)
(*                                                                          *)
(* run_pub is a linear workflow: two queries, a dictionary merge, a         *)
(* flatten-and-sort, three enrichment loops, the rendering of a spreadsheet *)
(* and one mail.  Each statement group of run_pub that can raise is one     *)
(* step of the model, so that "what has happened when an exception leaves   *)
(* run_pub" is a state.                                                     *)
(*                                                                          *)
(* Python values are tagged: Str(s) is a str, List(xs) a list of str,       *)
(* Bool(b) a bool.  A publication (a Python dict) is a function from the    *)
(* keys it holds to such values; "c in p" is c \in DOMAIN p.                *)
(*                                                                          *)
(* Dictionaries are values here, objects in Python: all[b] is the very      *)
(* record of by_authors (or, for a key only by_keywords has, of             *)
(* by_keywords), and the loops over publications change that record.        *)
(* run_pub reads by_keywords last at line 192, where no record of it has    *)
(* been changed yet, and all last at line 195, so the variables by_keywords *)
(* and by_authors hold the results as returned and all holds the merged     *)
(* dictionary as lines 188-192 leave it.                                    *)
(***************************************************************************)
EXTENDS Integers, Sequences, FiniteSets, TLC

\* The number of distinct bibcodes the bibliographic service can return.
MaxBib == 2
\* The number of lines, and of characters before the newline of a line, of
\* the file of previously found bibcodes.
MaxLines == 2
MaxLineLen == 2

VARIABLES
    pc,             \* the statement of run_pub about to execute
    by_keywords,    \* run_pub's local: result of queries.by_keywords
    by_authors,     \* run_pub's local: result of queries.by_authors
    all,            \* run_pub's local: the merged dictionary
    publications,   \* run_pub's local: the flattened list
    workbook,       \* the cells written by publications_spreadsheet
    outbox,         \* the mails handed to the relay by this invocation
    raised,         \* the exception that left the function, or "none"
    found,          \* history: bibcodes mailed by earlier invocations
    prev_file,      \* the file config.PREVIOUS_BIBCODES_FILE would name
    returned        \* what previously_found_bibcodes returned

vars == <<pc, by_keywords, by_authors, all, publications, workbook, outbox,
          raised, found, prev_file, returned>>

----------------------------------------------------------------------------
\* Python values

\* v is a sequence of strings whatever the type: the one string of a str,
\* the items of a list, the name of a bool.
Str(s) == [t |-> "str", v |-> <<s>>]
List(xs) == [t |-> "list", v |-> xs]
Bool(b) == [t |-> "bool", v |-> IF b THEN <<"True">> ELSE <<"False">>]
StrOf(x) == x.v[1]

Range(s) == {s[i] : i \in 1..Len(s)}

\* A dict that keeps insertion order: its keys in order, and its values.
EmptyDict == [keys |-> <<>>, val |-> <<>>]

\* Bibcodes are strings compared lexicographically; the model's bibcodes are
\* the one-digit strings "1", "2", ..., whose lexicographic order is the
\* numeric one.
Bibcodes == {ToString(n) : n \in 1..MaxBib}
Rank(b) == CHOOSE n \in 1..MaxBib : ToString(n) = b
StrLeq(a, b) == Rank(a) <= Rank(b)

----------------------------------------------------------------------------
\* config.py

\* The names config.py binds at module level.
ConfigAttributes ==
    {"CSRF_ENABLED", "SECRET_KEY", "ADS_API_KEY", "AUTHORS", "KEYWORDS",
     "FROM_EMAIL_ADDRESS", "LIBRARIAN_EMAIL_ADDRESSES", "email", "os",
     "f1", "f", "b", "key", "value"}

\* os.environ['LIBRARIANS_EMAIL'].split('&')
LIBRARIAN_EMAIL_ADDRESSES == <<"librarian1@saao", "librarian2@saao">>
FROM_EMAIL_ADDRESS == "query@saao"

----------------------------------------------------------------------------
\* ADSQueries (module ads_queries): the records a query may return.

\* What by_keywords may hold for a bibcode, the bibcode aside: the keyword
\* annotations, and whichever bibliographic fields the service had.
KeywordShapes ==
    { [keywords |-> List(<<"SAAO">>),
       property |-> List(<<"ARTICLE", "REFEREED">>),
       title |-> List(<<"T">>),
       pub |-> Str("MNRAS")],
      [keywords |-> List(<<"SAAO", "KELT">>),
       property |-> List(<<"ARTICLE">>),
       title |-> List(<<>>)],
      [keywords |-> List(<<"KELT">>),
       title |-> List(<<"T", "U">>)] }

\* What by_authors may hold for a bibcode, the bibcode aside.
AuthorShapes ==
    { [property |-> List(<<"REFEREED">>),
       author |-> List(<<"A", "B">>),
       title |-> List(<<"T", "U">>)],
      [keywords |-> List(<<"OLD">>),
       property |-> List(<<"ARTICLE">>),
       author |-> List(<<"A">>),
       volume |-> Str("464")],
      [author |-> List(<<>>),
       page |-> List(<<"12", "13">>)] }

\* The orders in which a result may list its keys: the sequences of
\* distinct bibcodes.
KeyOrders ==
    {s \in UNION {[1..n -> Bibcodes] : n \in 0..MaxBib} :
        \A i, j \in 1..Len(s) : i # j => s[i] # s[j]}

\* A mapping from bibcode to record, every record holding its own bibcode.
QueryResults(shapes) ==
    UNION { { [keys |-> o,
               val |-> [b \in Range(o) |-> ("bibcode" :> Str(b)) @@ f[b]]]
              : f \in [Range(o) -> shapes] }
            : o \in KeyOrders }

----------------------------------------------------------------------------
\* dict and list operations of Python used by run_pub

\* "c in p"
Has(p, c) == c \in DOMAIN p

\* p.get(c, default)
Get(p, c, default) == IF Has(p, c) THEN p[c] ELSE default

\* p[c] = v
SetItem(p, c, v) == (c :> v) @@ p

\* A merge that lists a key of both dictionaries twice.
DictUnpackKeepsBoth(a, b) ==
    [keys |-> a.keys \o b.keys,
     val |-> [k \in Range(a.keys) \cup Range(b.keys) |->
                 IF k \in Range(b.keys) THEN b.val[k] ELSE a.val[k]]]

\* A merge in which the earlier dictionary wins.
DictUnpackFirstWins(a, b) ==
    [keys |-> a.keys \o SelectSeq(b.keys, LAMBDA k : k \notin Range(a.keys)),
     val |-> [k \in Range(a.keys) \cup Range(b.keys) |->
                 IF k \in Range(a.keys) THEN a.val[k] ELSE b.val[k]]]

\* {**a, **b}: the keys of a in a's order, then the keys only b has in b's
\* order; for a key of both, b's value.
DictUnpack(a, b) ==
    [keys |-> a.keys \o SelectSeq(b.keys, LAMBDA k : k \notin Range(a.keys)),
     val |-> [k \in Range(a.keys) \cup Range(b.keys) |->
                 IF k \in Range(b.keys) THEN b.val[k] ELSE a.val[k]]]

\* The truth value of a Python value: an empty list or str is false.
Truthy(x) ==
    CASE x.t = "list" -> x.v # <<>>
      [] x.t = "str" -> StrOf(x) # ""
      [] x.t = "bool" -> x = Bool(TRUE)

\* sep.join(xs) for a list xs of str
RECURSIVE Join(_, _)
Join(sep, xs) ==
    IF xs = <<>> THEN ""
    ELSE IF Len(xs) = 1 THEN xs[1]
    ELSE xs[1] \o sep \o Join(sep, Tail(xs))

\* An insertion that compares nothing.
InsertInFront(sorted, p) == <<p>> \o sorted

\* The place of p in a list sorted by bibcode: behind every record whose
\* bibcode is not greater (list.sort is stable).
RECURSIVE Insert(_, _)
Insert(sorted, p) ==
    IF sorted = <<>> THEN <<p>>
    ELSE IF StrLeq(StrOf(sorted[1]["bibcode"]), StrOf(p["bibcode"]))
         THEN <<sorted[1]>> \o Insert(Tail(sorted), p)
         ELSE <<p>> \o sorted

\* publications.sort(key=lambda p: p['bibcode'])
RECURSIVE SortByBibcode(_)
SortByBibcode(ps) ==
    IF ps = <<>> THEN <<>>
    ELSE Insert(SortByBibcode(SubSeq(ps, 1, Len(ps) - 1)), ps[Len(ps)])

----------------------------------------------------------------------------
\* run_pub, lines 188-211, as functions of the locals

\* A merge without the loop over by_keywords.
KeepKeywordsSkipped(merged, kw) == merged

\* for b in by_keywords: all[b]['keywords'] = by_keywords[b]['keywords']
KeepKeywords(merged, kw) ==
    [merged EXCEPT !.val =
        [k \in DOMAIN merged.val |->
            IF k \in Range(kw.keys)
            THEN SetItem(merged.val[k], "keywords", kw.val[k]["keywords"])
            ELSE merged.val[k]]]

\* all = {**by_keywords, **by_authors}, then the loop over by_keywords
MergeResults(kw, au) == KeepKeywords(DictUnpack(kw, au), kw)

\* publications = [all[b] for b in all.keys()]
Flatten(merged) == [i \in 1..Len(merged.keys) |-> merged.val[merged.keys[i]]]

\* 'https://ui.adsabs.harvard.edu/#abs/{0}/abstract'.format(p['bibcode'])
AdsUrl(bibcode) ==
    Str("https://ui.adsabs.harvard.edu/#abs/" \o StrOf(bibcode) \o "/abstract")

\* p['ads_url'] = ...
WithAdsUrl(p) == SetItem(p, "ads_url", AdsUrl(p["bibcode"]))

\* p['refereed'] = 'REFEREED' in p['property']
WithRefereed(p) ==
    SetItem(p, "refereed", Bool("REFEREED" \in Range(p["property"].v)))

list_value_columns == <<"author", "title", "doi", "keywords", "page">>

\* if c in p and p[c]: p[c] = ', '.join(p[c])
JoinColumn(p, c) ==
    IF Has(p, c) /\ Truthy(p[c]) THEN SetItem(p, c, Str(Join(", ", p[c].v)))
    ELSE p

\* for c in list_value_columns: ...
RECURSIVE JoinColumns(_, _)
JoinColumns(p, cs) ==
    IF cs = <<>> THEN p ELSE JoinColumns(JoinColumn(p, cs[1]), Tail(cs))

WithJoinedLists(p) == JoinColumns(p, list_value_columns)

\* The three loops "for p in publications: ...", each run to its end.
AllWithAdsUrl(ps) == [i \in 1..Len(ps) |-> WithAdsUrl(ps[i])]
AllWithRefereed(ps) == [i \in 1..Len(ps) |-> WithRefereed(ps[i])]
AllWithJoinedLists(ps) == [i \in 1..Len(ps) |-> WithJoinedLists(ps[i])]

----------------------------------------------------------------------------
\* spreadsheet_columns, publications_spreadsheet

\* The keys of the ordered dictionary, in the order they are set.
spreadsheet_columns ==
    <<"record_type", "publication_number", "author", "title", "pub",
      "volume", "issue", "page", "refereed", "bibcode", "doi", "ads_url",
      "abstract", "telescopes", "keywords">>

\* worksheet.write(row, col, value); rows and columns count from 0.
Write(worksheet, row, col, value) == (<<row, col>> :> value) @@ worksheet

\* for col, c in enumerate(columns): worksheet.write(row, col, p.get(c, ''))
RECURSIVE WriteColumns(_, _, _, _, _)
WriteColumns(worksheet, row, p, columns, n) ==
    IF n > Len(columns) THEN worksheet
    ELSE WriteColumns(Write(worksheet, row, n - 1, Get(p, columns[n], Str(""))),
                      row, p, columns, n + 1)

\* Rows written below a header row.
RECURSIVE WriteRowsBelowHeader(_, _, _, _)
WriteRowsBelowHeader(worksheet, ps, columns, n) ==
    IF n > Len(ps) THEN worksheet
    ELSE WriteRowsBelowHeader(WriteColumns(worksheet, n, ps[n], columns, 1),
                              ps, columns, n + 1)

\* for row, p in enumerate(publications): ...
RECURSIVE WriteRows(_, _, _, _)
WriteRows(worksheet, ps, columns, n) ==
    IF n > Len(ps) THEN worksheet
    ELSE WriteRows(WriteColumns(worksheet, n - 1, ps[n], columns, 1),
                   ps, columns, n + 1)

\* The cells of the worksheet of the workbook the function returns.
publications_spreadsheet(ps, columns) == WriteRows(<<>>, ps, columns, 1)

----------------------------------------------------------------------------
\* send_mails

\* One MIME part per spreadsheet, named by its 'name', holding its content.
Attachments(spreadsheets) ==
    [i \in 1..Len(spreadsheets) |->
        [filename |-> spreadsheets[i].name, payload |-> spreadsheets[i].content]]

\* A mail to the first librarian only.
MailToFirstAddress(spreadsheets) ==
    [from |-> FROM_EMAIL_ADDRESS,
     to |-> <<LIBRARIAN_EMAIL_ADDRESSES[1]>>,
     subject |-> "Publications Query Results",
     attachments |-> Attachments(spreadsheets)]

\* The arguments of the one s.sendmail call.
Mail(spreadsheets) ==
    [from |-> FROM_EMAIL_ADDRESS,
     to |-> LIBRARIAN_EMAIL_ADDRESSES,
     subject |-> "Publications Query Results",
     attachments |-> Attachments(spreadsheets)]

----------------------------------------------------------------------------
\* The file of previously found bibcodes

\* A line is the sequence of its characters, the newline included.
Whitespace == {" ", "\n"}
LineBodies == UNION {[1..n -> {" ", "1"}] : n \in 0..MaxLineLen}
Lines == {body \o <<"\n">> : body \in LineBodies}
NoFile == [exists |-> FALSE, lines |-> <<>>]
Files ==
    {NoFile} \cup
    {[exists |-> TRUE, lines |-> ls] : ls \in UNION {[1..n -> Lines] : n \in 0..MaxLines}}

\* line.strip()
RECURSIVE LStrip(_)
LStrip(line) ==
    IF line # <<>> /\ line[1] \in Whitespace THEN LStrip(Tail(line)) ELSE line
RECURSIVE RStrip(_)
RStrip(line) ==
    IF line # <<>> /\ line[Len(line)] \in Whitespace
    THEN RStrip(SubSeq(line, 1, Len(line) - 1)) ELSE line
Strip(line) == RStrip(LStrip(line))

\* What a call has produced: nothing yet, a returned list, or an exception.
Nothing == [kind |-> "none", value |-> <<>>, exception |-> ""]
Returns(x) == [kind |-> "value", value |-> x, exception |-> ""]
Raises(e) == [kind |-> "exception", value |-> <<>>, exception |-> e]

\* _ensure_previously_recorded_file_exists: the file afterwards and the
\* exception raised, if any.  created says whether open(..., 'w') can
\* create the file; if it cannot, open raises OSError, which is IOError.
\* Reading config.PREVIOUS_BIBCODES_FILE comes first.
EnsureFileExists(file, created) ==
    IF "PREVIOUS_BIBCODES_FILE" \notin ConfigAttributes
    THEN [file |-> file, outcome |-> Raises("AttributeError")]
    ELSE IF file.exists
    THEN [file |-> file, outcome |-> Nothing]
    ELSE IF created
    THEN [file |-> [exists |-> TRUE, lines |-> <<>>], outcome |-> Nothing]
    ELSE [file |-> file, outcome |-> Raises("IOError")]

\* previously_found_bibcodes
previously_found_bibcodes ==
    /\ returned = Nothing
    /\ \E created \in BOOLEAN :
         LET ensured == EnsureFileExists(prev_file, created) IN
         /\ prev_file' = ensured.file
         /\ returned' =
              IF ensured.outcome # Nothing THEN ensured.outcome
              ELSE Returns([i \in 1..Len(ensured.file.lines) |->
                              Strip(ensured.file.lines[i])])
    /\ UNCHANGED <<pc, by_keywords, by_authors, all, publications, workbook,
                   outbox, raised, found>>

----------------------------------------------------------------------------
\* run_pub

Locals0 ==
    /\ pc = "by_keywords"
    /\ by_keywords = EmptyDict
    /\ by_authors = EmptyDict
    /\ all = EmptyDict
    /\ publications = <<>>
    /\ workbook = <<>>
    /\ outbox = <<>>
    /\ raised = "none"

Init ==
    /\ Locals0
    /\ found = {}
    /\ prev_file = NoFile
    /\ returned = Nothing

\* An exception leaves run_pub.
Raise(e) ==
    /\ pc' = "raised"
    /\ raised' = e

\* by_keywords = queries.by_keywords(config.KEYWORDS)
QueryByKeywords ==
    /\ pc = "by_keywords"
    /\ \/ /\ \E r \in QueryResults(KeywordShapes) : by_keywords' = r
          /\ pc' = "by_authors"
          /\ UNCHANGED raised
       \/ /\ Raise("QueryError")
          /\ UNCHANGED by_keywords
    /\ UNCHANGED <<by_authors, all, publications, workbook, outbox, found,
                   prev_file, returned>>

\* by_authors = queries.by_authors(config.AUTHORS.keys())
QueryByAuthors ==
    /\ pc = "by_authors"
    /\ \/ /\ \E r \in QueryResults(AuthorShapes) : by_authors' = r
          /\ pc' = "merge"
          /\ UNCHANGED raised
       \/ /\ Raise("QueryError")
          /\ UNCHANGED by_authors
    /\ UNCHANGED <<by_keywords, all, publications, workbook, outbox, found,
                   prev_file, returned>>

\* all = {**by_keywords, **by_authors} and the loop that keeps the keywords
Merge ==
    /\ pc = "merge"
    /\ all' = MergeResults(by_keywords, by_authors)
    /\ pc' = "flatten"
    /\ UNCHANGED <<by_keywords, by_authors, publications, workbook, outbox,
                   raised, found, prev_file, returned>>

\* publications = [...]; publications.sort(...)
FlattenSort ==
    /\ pc = "flatten"
    /\ publications' = SortByBibcode(Flatten(all))
    /\ pc' = "ads_url"
    /\ UNCHANGED <<by_keywords, by_authors, all, workbook, outbox, raised,
                   found, prev_file, returned>>

\* for p in publications: p['ads_url'] = ...
AddAdsUrl ==
    /\ pc = "ads_url"
    /\ publications' = AllWithAdsUrl(publications)
    /\ pc' = "refereed"
    /\ UNCHANGED <<by_keywords, by_authors, all, workbook, outbox, raised,
                   found, prev_file, returned>>

\* The records the loop has changed when p['property'] raises KeyError:
\* those before the first record without the key.
RefereedUntilKeyError(ps) ==
    LET first == CHOOSE i \in 1..Len(ps) :
                    /\ ~Has(ps[i], "property")
                    /\ \A j \in 1..(i - 1) : Has(ps[j], "property")
    IN [i \in 1..Len(ps) |-> IF i < first THEN WithRefereed(ps[i]) ELSE ps[i]]

\* for p in publications: p['refereed'] = 'REFEREED' in p['property']
AddRefereed ==
    /\ pc = "refereed"
    /\ IF \E i \in 1..Len(publications) : ~Has(publications[i], "property")
       THEN /\ publications' = RefereedUntilKeyError(publications)
            /\ Raise("KeyError")
       ELSE /\ publications' = AllWithRefereed(publications)
            /\ pc' = "join"
            /\ UNCHANGED raised
    /\ UNCHANGED <<by_keywords, by_authors, all, workbook, outbox, found,
                   prev_file, returned>>

\* for p in publications: for c in list_value_columns: ...
JoinListValues ==
    /\ pc = "join"
    /\ publications' = AllWithJoinedLists(publications)
    /\ pc' = "spreadsheet"
    /\ UNCHANGED <<by_keywords, by_authors, all, workbook, outbox, raised,
                   found, prev_file, returned>>

\* columns = spreadsheet_columns();
\* publications_spreadsheet(publications, columns.keys())
RenderSpreadsheet ==
    /\ pc = "spreadsheet"
    /\ workbook' = publications_spreadsheet(publications, spreadsheet_columns)
    /\ pc' = "send_mails"
    /\ UNCHANGED <<by_keywords, by_authors, all, publications, outbox, raised,
                   found, prev_file, returned>>

\* send_mails([dict(name='all.xlsx', content=...)], columns): one sendmail
\* call, which the relay may refuse.
SendMails ==
    /\ pc = "send_mails"
    /\ \/ /\ outbox' = Append(outbox,
                          Mail(<<[name |-> "all.xlsx", content |-> workbook]>>))
          /\ pc' = "done"
          /\ UNCHANGED raised
       \/ /\ Raise("SMTPException")
          /\ UNCHANGED outbox
    /\ UNCHANGED <<by_keywords, by_authors, all, publications, workbook, found,
                   prev_file, returned>>

\* One invocation of run_pub.
Next ==
    \/ QueryByKeywords
    \/ QueryByAuthors
    \/ Merge
    \/ FlattenSort
    \/ AddAdsUrl
    \/ AddRefereed
    \/ JoinListValues
    \/ RenderSpreadsheet
    \/ SendMails

Spec == Init /\ [][Next]_vars

\* The bibcodes of the rows of the spreadsheets mailed so far by this
\* invocation.
MailedBibcodes ==
    IF outbox = <<>> THEN {}
    ELSE {StrOf(publications[i]["bibcode"]) : i \in 1..Len(publications)}

\* run_pub is invoked again, after it returned or raised.  Nothing of an
\* invocation outlives it: run_pub writes no file.
Reinvoke ==
    /\ pc \in {"done", "raised"}
    /\ found' = found \cup MailedBibcodes
    /\ pc' = "by_keywords"
    /\ by_keywords' = EmptyDict
    /\ by_authors' = EmptyDict
    /\ all' = EmptyDict
    /\ publications' = <<>>
    /\ workbook' = <<>>
    /\ outbox' = <<>>
    /\ raised' = "none"
    /\ UNCHANGED <<prev_file, returned>>

NextRuns == Next \/ Reinvoke

\* Any sequence of invocations of run_pub.
SpecRuns == Init /\ [][NextRuns]_vars

\* One call of previously_found_bibcodes, whatever the file holds.
InitFile ==
    /\ Locals0
    /\ found = {}
    /\ prev_file \in Files
    /\ returned = Nothing

NextFile == previously_found_bibcodes

SpecFile == InitFile /\ [][NextFile]_vars

----------------------------------------------------------------------------
\* Vocabulary of the properties

\* The statements of run_pub behind the merge, the sort, the refereed loop
\* and the join loop, an exception raised behind them included.
AfterMerge ==
    \/ pc \in {"flatten", "ads_url", "refereed", "join", "spreadsheet",
               "send_mails", "done"}
    \/ pc = "raised" /\ raised \in {"KeyError", "SMTPException"}
AfterSort == AfterMerge /\ pc # "flatten"
AfterRefereed ==
    \/ pc \in {"join", "spreadsheet", "send_mails", "done"}
    \/ pc = "raised" /\ raised = "SMTPException"
AfterJoin == AfterRefereed /\ pc # "join"
AfterRender == AfterJoin /\ pc # "spreadsheet"

KeywordIds == Range(by_keywords.keys)
AuthorIds == Range(by_authors.keys)
Rows == 1..Len(publications)
BibcodeOfRow(i) == StrOf(publications[i]["bibcode"])

\* The record a query returned for the bibcode of a row of the list.
ReturnedFor(i) ==
    IF BibcodeOfRow(i) \in AuthorIds THEN by_authors.val[BibcodeOfRow(i)]
    ELSE by_keywords.val[BibcodeOfRow(i)]

\* The number of places of a sequence that hold x.
Count(seq, x) == Cardinality({i \in 1..Len(seq) : seq[i] = x})

\* The column (counted from 0) of a key of the spreadsheet.
ColumnOf(c) ==
    (CHOOSE n \in 1..Len(spreadsheet_columns) : spreadsheet_columns[n] = c) - 1

----------------------------------------------------------------------------
\* C1: across invocations of run_pub, a publication whose bibcode an earlier
\* invocation mailed is not in the spreadsheet a later invocation mails.
C1_NoRepeatAcrossRuns == MailedBibcodes \cap found = {}

\* C2: the flattened list holds exactly one row per identifier of the union
\* of the key sets of the two query results: none missing, none twice, none
\* from elsewhere.
C2_OneRowPerIdentifier ==
    AfterSort =>
        /\ \A b \in KeywordIds \cup AuthorIds :
              Cardinality({i \in Rows : BibcodeOfRow(i) = b}) = 1
        /\ \A i \in Rows : BibcodeOfRow(i) \in KeywordIds \cup AuthorIds

C2_Witness ==
    /\ pc = "done"
    /\ KeywordIds \cap AuthorIds # {}
    /\ KeywordIds \ AuthorIds # {}
    /\ Len(publications) = Cardinality(KeywordIds \cup AuthorIds)

\* C3: for every identifier of the keyword result, the merged record's
\* keywords are those of the keyword-query record, also when the author
\* result holds the identifier (and its own keywords); the rows of the list
\* carry them until the join loop rewrites them.
C3_KeywordsOfKeywordQuery ==
    /\ AfterMerge =>
          \A b \in KeywordIds :
              /\ Has(all.val[b], "keywords")
              /\ all.val[b]["keywords"] = by_keywords.val[b]["keywords"]
    /\ AfterSort /\ ~AfterRefereed =>
          \A i \in Rows :
              BibcodeOfRow(i) \in KeywordIds =>
                  /\ Has(publications[i], "keywords")
                  /\ publications[i]["keywords"] =
                        by_keywords.val[BibcodeOfRow(i)]["keywords"]

C3_Witness ==
    /\ pc = "ads_url"
    /\ \E b \in KeywordIds \cap AuthorIds :
          /\ Has(by_authors.val[b], "keywords")
          /\ by_authors.val[b]["keywords"] # by_keywords.val[b]["keywords"]
          /\ all.val[b]["keywords"] = by_keywords.val[b]["keywords"]

\* C4: for an identifier of both results the merged record is the
\* author-query record with the keywords replaced: every other field has the
\* author-query record's value, and a field only the keyword-query record
\* has is not carried over.
C4_LaterWriteWinsButKeywords ==
    AfterMerge =>
        \A b \in KeywordIds \cap AuthorIds :
            /\ DOMAIN all.val[b] = DOMAIN by_authors.val[b] \cup {"keywords"}
            /\ \A c \in DOMAIN by_authors.val[b] \ {"keywords"} :
                  all.val[b][c] = by_authors.val[b][c]

C4_Witness ==
    /\ pc = "flatten"
    /\ \E b \in KeywordIds \cap AuthorIds :
          /\ Has(by_keywords.val[b], "pub")
          /\ ~Has(all.val[b], "pub")
          /\ Has(all.val[b], "author")
          /\ Has(by_authors.val[b], "title")
          /\ by_keywords.val[b]["title"] # by_authors.val[b]["title"]
          /\ all.val[b]["title"] = by_authors.val[b]["title"]

\* The enrichment loops of run_pub, in the order of the workflow.
Enriched(ps) ==
    AllWithJoinedLists(AllWithRefereed(AllWithAdsUrl(ps)))

\* C5: the list, and so the rows of the mailed spreadsheet, are in
\* non-decreasing order of bibcode; the sort permutes the flattened list; and
\* sorting before the enrichment gives the rows that enriching before the
\* sort gives.
C5_SortedByBibcode ==
    /\ AfterSort =>
          \A i, j \in Rows :
              i < j => Rank(BibcodeOfRow(i)) <= Rank(BibcodeOfRow(j))
    /\ pc = "ads_url" =>
          \A r \in Range(Flatten(all)) \cup Range(publications) :
              Count(publications, r) = Count(Flatten(all), r)
    /\ AfterJoin => publications = SortByBibcode(Enriched(Flatten(all)))
    /\ pc = "done" =>
          LET sheet == outbox[1].attachments[1].payload
              col == ColumnOf("bibcode")
          IN \A i, j \in Rows :
                 i < j => Rank(StrOf(sheet[<<i - 1, col>>])) <=
                          Rank(StrOf(sheet[<<j - 1, col>>]))

C5_Witness ==
    /\ pc = "done"
    /\ Len(publications) > 1
    /\ Flatten(all) # publications
    /\ \E i \in 1..(Len(all.keys) - 1) : Rank(all.keys[i]) > Rank(all.keys[i + 1])

\* The list a query returned for a list-valued field of a row: the keyword
\* query's for the keywords of an identifier it returned.
ReturnedList(i, c) ==
    IF c = "keywords" /\ BibcodeOfRow(i) \in KeywordIds
    THEN by_keywords.val[BibcodeOfRow(i)][c]
    ELSE ReturnedFor(i)[c]

\* C6: after the join loop every list-valued display field a record holds is
\* the comma-joined string of the list the query returned, the empty list
\* included, and joined once.
C6_ListFieldsJoined ==
    AfterJoin =>
        \A i \in Rows : \A c \in Range(list_value_columns) :
            Has(publications[i], c) =>
                publications[i][c] = Str(Join(", ", ReturnedList(i, c).v))

\* C7: the enrichment completes for every record either query returned, one
\* without a property list included; afterwards every record holds refereed,
\* true exactly when its property list holds REFEREED, and the ads_url of
\* its own bibcode.
C7_RefereedAndUrl ==
    /\ raised # "KeyError"
    /\ AfterRefereed =>
          \A i \in Rows :
              /\ Has(ReturnedFor(i), "property")
              /\ publications[i]["refereed"] =
                    Bool("REFEREED" \in Range(ReturnedFor(i)["property"].v))
              /\ publications[i]["ads_url"] = AdsUrl(Str(BibcodeOfRow(i)))

\* C8: the spreadsheet is the grid of the publications by the 15 column keys
\* in their declared order: cell (i, j), counted from 0, holds what the i-th
\* publication holds under the j-th key, or the empty string; no header row,
\* and no cell outside the grid.
C8_SpreadsheetGrid ==
    AfterRender =>
        /\ Len(spreadsheet_columns) = 15
        /\ DOMAIN workbook =
              (0..(Len(publications) - 1)) \X (0..(Len(spreadsheet_columns) - 1))
        /\ \A i \in Rows : \A j \in 1..Len(spreadsheet_columns) :
              workbook[<<i - 1, j - 1>>] =
                  IF spreadsheet_columns[j] \in DOMAIN publications[i]
                  THEN publications[i][spreadsheet_columns[j]]
                  ELSE Str("")

C8_Witness ==
    /\ pc = "send_mails"
    /\ Len(publications) > 1
    /\ workbook[<<1, ColumnOf("bibcode")>>] = publications[2]["bibcode"]
    /\ workbook[<<0, ColumnOf("title")>>] # workbook[<<1, ColumnOf("title")>>]
    /\ \E i \in Rows : workbook[<<i - 1, ColumnOf("abstract")>>] = Str("")

\* C9: an invocation that completes has sent exactly one mail, to every
\* librarian address, with the one attachment all.xlsx holding the
\* spreadsheet rendered from the merged results of both queries; an
\* invocation that has not completed, or that failed, has sent none; and the
\* mail is sent also when no publication matched.
C9_OneMailPerRun ==
    /\ pc = "done" =>
          /\ Len(outbox) = 1
          /\ outbox[1].to = LIBRARIAN_EMAIL_ADDRESSES
          /\ Len(outbox[1].attachments) = 1
          /\ outbox[1].attachments[1].filename = "all.xlsx"
          /\ outbox[1].attachments[1].payload = workbook
          /\ workbook =
                publications_spreadsheet(
                    Enriched(SortByBibcode(Flatten(
                        MergeResults(by_keywords, by_authors)))),
                    spreadsheet_columns)
    /\ pc # "done" => outbox = <<>>

C9_Witness ==
    /\ pc = "done"
    /\ KeywordIds \cup AuthorIds = {}
    /\ Len(outbox) = 1
    /\ outbox[1].attachments[1].payload = <<>>

\* C10: after a call of previously_found_bibcodes the file exists and the
\* call returned the stripped lines of the file in file order (none for a
\* file it created), or the file does not exist and IOError was raised.
C10_FileEnsuredThenRead ==
    returned # Nothing =>
        \/ /\ prev_file.exists
           /\ returned = Returns([i \in 1..Len(prev_file.lines) |->
                                     Strip(prev_file.lines[i])])
        \/ /\ ~prev_file.exists
           /\ returned = Raises("IOError")

====
